---- MODULE Spec2Model ----
(***************************************************************************)
(* Model of the Storacha storage client (StorachaClient): the memoised     *)
(* initialisation, the inline and URL upload paths with the policy-        *)
(* enforced streaming URL fetch, and the archive based retrieval.          *)
(***************************************************************************)
EXTENDS Integers, Sequences, FiniteSets, TLC

\* ------------------------------------------------------------------ bounds
\* Number of initialize() calls issued on the one client instance.
NCalls == 2

CallIds == 1..NCalls

\* Errors the storage backend (Storage.create, addSpace) may reject with.
BackendErrors == {"ECONNREFUSED", "EDELEGATION"}

NoError == [msg |-> "none", cause |-> "none"]

Err(m, c) == [msg |-> m, cause |-> c]

\* Largest maxUrlFileSizeBytes of a policy.
MaxBytes == 2

\* Longest body (in bytes) a remote URL serves.
MaxBody == 3

\* Largest chunk (in bytes) one reader.read() delivers.
MaxChunk == 2

\* Number of URL files one uploadFilesFromUrls call may carry.
MaxFiles == 2

FetchIds == 1..MaxFiles

\* ----------------------------------------------------------------- strings
\* Host names and allow-list entries are sequences of characters.
LowerChar(ch) ==
  CASE ch = "A" -> "a"
    [] ch = "B" -> "b"
    [] ch = "C" -> "c"
    [] ch = "M" -> "m"
    [] ch = "O" -> "o"
    [] ch = "X" -> "x"
    [] OTHER -> ch

\* String.prototype.toLowerCase
ToLowerCase(s) == [k \in 1..Len(s) |-> LowerChar(s[k])]

\* String.prototype.endsWith
EndsWith(s, suffix) ==
  /\ Len(suffix) <= Len(s)
  /\ SubSeq(s, Len(s) - Len(suffix) + 1, Len(s)) = suffix

Dot == <<".">>

H_a_b_com == <<"a", ".", "b", ".", "c", "o", "m">>
H_A_B_COM == <<"A", ".", "B", ".", "C", "O", "M">>
H_x_b_com == <<"x", ".", "b", ".", "c", "o", "m">>
H_b_com == <<"b", ".", "c", "o", "m">>
H_B_Com == <<"B", ".", "C", "o", "m">>
H_ab_com == <<"a", "b", ".", "c", "o", "m">>
H_com == <<"c", "o", "m">>
H_b_com_x_net == <<"b", ".", "c", "o", "m", ".", "x", ".", "n", "e", "t">>
H_empty == <<>>


\* -------------------------------------------------------------------- data
\* Content identifiers are modelled by the block they address (an injective hash).
\* A block: its codec, its payload bytes and its named links.
BlockSize == 2

Block(codec, data, links) == [codec |-> codec, data |-> data, links |-> links]

RawBlock(bytes) == Block("raw", bytes, <<>>)

Link(name, cid) == [name |-> name, cid |-> cid]

RECURSIVE ChunkLinks(_)
\* The leaves of a file larger than one block, in order.
ChunkLinks(bytes) ==
  IF Len(bytes) = 0 THEN <<>>
  ELSE IF Len(bytes) <= BlockSize THEN <<Link("", RawBlock(bytes))>>
  ELSE <<Link("", RawBlock(SubSeq(bytes, 1, BlockSize)))>>
         \o ChunkLinks(SubSeq(bytes, BlockSize + 1, Len(bytes)))

\* The identifier of a file's content.
FileCid(bytes) ==
  IF Len(bytes) <= BlockSize THEN RawBlock(bytes)
  ELSE Block("file", <<>>, ChunkLinks(bytes))

\* The identifier of the directory wrapping the uploaded files.
DirCid(files) ==
  Block("dir", <<>>, [k \in 1..Len(files) |-> Link(files[k].name, FileCid(files[k].bytes))])

NoFile == [exists |-> FALSE, name |-> "none", bytes |-> <<>>, type |-> "none"]

\* The File constructor stores the type in ASCII lower case (the types written
\* with capitals among the inputs are listed here).
LowerType(type) ==
  CASE type = "Image/PNG" -> "image/png"
    [] type = "Text/Plain" -> "text/plain"
    [] OTHER -> type

File(bytes, name, type) ==
  [exists |-> TRUE, name |-> name, bytes |-> bytes, type |-> LowerType(type)]

RECURSIVE Concat(_)
\* All chunks combined into one buffer, in order.
Concat(chunks) ==
  IF Len(chunks) = 0 THEN <<>> ELSE Head(chunks) \o Concat(Tail(chunks))

\* Where the query of a reference starts: the position of its first "?", or one
\* past its end when it has none.
QueryMark(ref) ==
  IF \E k \in 1..Len(ref) : ref[k] = "?"
    THEN CHOOSE k \in 1..Len(ref) : ref[k] = "?" /\ \A j \in 1..(k - 1) : ref[j] # "?"
    ELSE Len(ref) + 1

\* new URL(`/ipfs/${cid}${pathname}?${query}`, base). The reference starts with
\* "/", so the base contributes its origin only and its own path is dropped. The
\* parser ends the path at the first "?" of the reference: what follows, further
\* "?" included, is the query. The pathname is a sequence of segments in which a
\* "?" written in it stands as a segment of its own.
ResolveUrl(cid, segs, query, base) ==
  LET ref == segs \o (IF query = "" THEN <<>> ELSE <<"?", query>>)
  IN [origin |-> base.origin, pathPrefix |-> <<>>, cid |-> cid,
      segs |-> SubSeq(ref, 1, QueryMark(ref) - 1),
      query |-> SubSeq(ref, QueryMark(ref) + 1, Len(ref))]

\* ------------------------------------------------------------------- codec
\* Base-64 text is a sequence of symbols: 0..63 are the alphabet's digits,
\* Pad is "=", and MultibaseTag is the "m" prefix of the self-describing form.
Pad == 64

MultibaseTag == 100

\* The ASCII code of a base-64 symbol (A-Z, a-z, 0-9, +, /, =).
SymbolCode(x) ==
  IF x < 26 THEN 65 + x
  ELSE IF x < 52 THEN 97 + (x - 26)
  ELSE IF x < 62 THEN 48 + (x - 52)
  ELSE IF x = 62 THEN 43
  ELSE IF x = 63 THEN 47
  ELSE 61

RECURSIVE Base64Digits(_)
\* The digits of the bytes, without padding.
Base64Digits(b) ==
  IF Len(b) = 0 THEN <<>>
  ELSE IF Len(b) = 1 THEN <<b[1] \div 4, (b[1] % 4) * 16>>
  ELSE IF Len(b) = 2
    THEN <<b[1] \div 4, (b[1] % 4) * 16 + b[2] \div 16, (b[2] % 16) * 4>>
  ELSE <<b[1] \div 4, (b[1] % 4) * 16 + b[2] \div 16,
         (b[2] % 16) * 4 + b[3] \div 64, b[3] % 64>>
         \o Base64Digits(SubSeq(b, 4, Len(b)))

Padding(n) ==
  IF n % 3 = 1 THEN <<Pad, Pad>> ELSE IF n % 3 = 2 THEN <<Pad>> ELSE <<>>

\* Standard (padded) base-64 of the bytes.
Base64Encode(b) == Base64Digits(b) \o Padding(Len(b))

RECURSIVE DecodeDigits(_)
DecodeDigits(t) ==
  IF Len(t) = 0 THEN <<>>
  ELSE IF Len(t) = 2 THEN <<t[1] * 4 + t[2] \div 16>>
  ELSE IF Len(t) = 3
    THEN <<t[1] * 4 + t[2] \div 16, (t[2] % 16) * 16 + t[3] \div 4>>
  ELSE <<t[1] * 4 + t[2] \div 16, (t[2] % 16) * 16 + t[3] \div 4,
         (t[3] % 4) * 64 + t[4]>>
         \o DecodeDigits(SubSeq(t, 5, Len(t)))

\* The text without its trailing padding.
StripPad(t) ==
  IF Len(t) >= 2 /\ t[Len(t)] = Pad /\ t[Len(t) - 1] = Pad THEN SubSeq(t, 1, Len(t) - 2)
  ELSE IF Len(t) >= 1 /\ t[Len(t)] = Pad THEN SubSeq(t, 1, Len(t) - 1)
  ELSE t

WellFormedBase64(t) ==
  /\ Len(t) % 4 = 0
  /\ \A k \in 1..Len(StripPad(t)) : StripPad(t)[k] \in 0..63

\* base64ToBytes: the inverse of the plain encoding; malformed input is an error.
Base64ToBytes(t) ==
  IF WellFormedBase64(t)
    THEN [ok |-> TRUE, bytes |-> DecodeDigits(StripPad(t))]
    ELSE [ok |-> FALSE, bytes |-> <<>>]

\* streamToBase64: the drained stream as plain base-64, or as multibase base-64
\* (tag, no padding).
StreamToBase64(bytes, useMultiformatBase64) ==
  IF useMultiformatBase64 THEN <<MultibaseTag>> \o Base64Digits(bytes)
  ELSE Base64Encode(bytes)

\* ------------------------------------------------------------------- paths
\* A path string: its leading marker, the identifier text and the segments after it.
PathPrefixes == {"", "/ipfs/", "ipfs://"}

NoResource == [ok |-> FALSE, protocol |-> "none", cid |-> RawBlock(<<>>), pathname |-> <<>>]

\* parseIpfsPath: "<cid>/<rest>", "/ipfs/<cid>/<rest>" or "ipfs://<cid>/<rest>".
ParseIpfsPath(path) ==
  IF path.prefix \in PathPrefixes /\ path.id.valid
    THEN [ok |-> TRUE, protocol |-> "ipfs:", cid |-> path.id.cid, pathname |-> path.segs]
    ELSE NoResource

\* ------------------------------------------------------------------- state
VARIABLES
  config,        \* StorageConfig: which credentials are present, the gateway URL
  initialized,   \* this.initialized: "null" or the state of the memoised promise
  initError,     \* the error the memoised promise rejected with
  storage,       \* this.storage: "null" or "client"
  initPc,        \* where the initialisation body is suspended
  createCalls,   \* calls of Storage.create so far
  addSpaceCalls, \* calls of storage.addSpace so far
  calls,         \* the initialize() calls: state of each returned promise
  req,           \* the upload request the caller issues: files, options, urlConfig
  signal,        \* options.signal: "none" (not given), "live" or "aborted"
  remote,        \* what each requested URL serves
  up,            \* the upload call in flight
  fetch,         \* the fetchFileFromUrl calls of the upload call
  store,         \* roots the backend has stored, with the call that stored them
  payload,       \* the bytes the caller means to upload, per file
  rt             \* the last retrieve call and its result

vars == <<config, initialized, initError, storage, initPc, createCalls,
          addSpaceCalls, calls, req, signal, remote, up, fetch, store, payload, rt>>

lifeVars == <<config, initialized, initError, storage, initPc, createCalls,
              addSpaceCalls, calls>>

inputVars == <<req, remote, payload>>

uploadVars == <<signal, up, fetch, store>>

\* The InitializationState the promise and the handle stand for.
Phase ==
  CASE initialized = "null" -> "Uninitialized"
    [] initialized = "pending" -> "Initializing"
    [] initialized = "fulfilled" -> "Ready"
    [] OTHER -> "Failed"

\* isConnected(): this.initialized !== null
IsConnected == initialized # "null"

\* Variant: the promise is memoised only once it has settled.
AlreadyInitializedOnceSettled == initialized \in {"fulfilled", "rejected"}

\* Variant: a failed initialisation is forgotten, so the next call tries again.
AlreadyInitializedUnlessFailed == initialized \in {"pending", "fulfilled"}

\* if (this.initialized) return this.initialized;
AlreadyInitialized == initialized # "null"

IdleCall == [st |-> "idle", err |-> NoError, phaseAtCall |-> "none"]

\* Variant: the credentials are not looked at before the connection is attempted.
InitializeWithoutCredentialCheck(c) ==
  /\ calls[c].st = "idle"
  /\ IF AlreadyInitialized
       THEN /\ calls' = [calls EXCEPT ![c] =
                 [st |-> "waiting", err |-> NoError, phaseAtCall |-> Phase]]
            /\ UNCHANGED <<initialized, initPc, createCalls>>
       ELSE /\ initialized' = "pending"
            /\ initPc' = "create"
            /\ createCalls' = createCalls + 1
            /\ calls' = [calls EXCEPT ![c] =
                 [st |-> "waiting", err |-> NoError, phaseAtCall |-> Phase]]
  /\ UNCHANGED <<config, initError, storage, addSpaceCalls, inputVars, uploadVars, rt>>

\* initialize(): up to the first suspension (the await of Storage.create).
Initialize(c) ==
  /\ calls[c].st = "idle"
  /\ IF AlreadyInitialized
       THEN /\ calls' = [calls EXCEPT ![c] =
                 [st |-> "waiting", err |-> NoError, phaseAtCall |-> Phase]]
            /\ UNCHANGED <<initialized, initPc, createCalls>>
       ELSE IF ~config.signer
         THEN /\ calls' = [calls EXCEPT ![c] =
                   [st |-> "rejected", err |-> Err("Private key is required", "none"),
                    phaseAtCall |-> Phase]]
              /\ UNCHANGED <<initialized, initPc, createCalls>>
       ELSE IF ~config.delegation
         THEN /\ calls' = [calls EXCEPT ![c] =
                   [st |-> "rejected", err |-> Err("Delegation is required", "none"),
                    phaseAtCall |-> Phase]]
              /\ UNCHANGED <<initialized, initPc, createCalls>>
       ELSE /\ initialized' = "pending"
            /\ initPc' = "create"
            /\ createCalls' = createCalls + 1
            /\ calls' = [calls EXCEPT ![c] =
                 [st |-> "waiting", err |-> NoError, phaseAtCall |-> Phase]]
  /\ UNCHANGED <<config, initError, storage, addSpaceCalls, inputVars, uploadVars, rt>>

\* Storage.create settles; on success this.storage is set and addSpace is called.
CreateSettle ==
  /\ initPc = "create"
  /\ \E r \in {"ok"} \cup BackendErrors :
       IF r = "ok"
         THEN /\ storage' = "client"
              /\ addSpaceCalls' = addSpaceCalls + 1
              /\ initPc' = "addSpace"
              /\ UNCHANGED <<initialized, initError>>
         ELSE /\ initialized' = "rejected"
              /\ initError' = Err("Failed to initialize storage client", r)
              /\ initPc' = "done"
              /\ UNCHANGED <<storage, addSpaceCalls>>
  /\ UNCHANGED <<config, createCalls, calls, inputVars, uploadVars, rt>>

\* storage.addSpace settles; the memoised promise settles with it.
AddSpaceSettle ==
  /\ initPc = "addSpace"
  /\ \E r \in {"ok"} \cup BackendErrors :
       IF r = "ok"
         THEN /\ initialized' = "fulfilled"
              /\ UNCHANGED initError
         ELSE /\ initialized' = "rejected"
              /\ initError' = Err("Failed to initialize storage client", r)
  /\ initPc' = "done"
  /\ UNCHANGED <<config, storage, createCalls, addSpaceCalls, calls, inputVars,
                 uploadVars, rt>>

\* The promise an initialize() call returned follows the memoised promise.
CallSettle(c) ==
  /\ calls[c].st = "waiting"
  /\ initialized \in {"fulfilled", "rejected"}
  /\ calls' = [calls EXCEPT ![c].st = initialized,
                            ![c].err = initError]
  /\ UNCHANGED <<config, initialized, initError, storage, initPc, createCalls,
                 addSpaceCalls, inputVars, uploadVars, rt>>

\* ------------------------------------------------------------ URL policy
\* new URL(urlString): the parser lower-cases the host; protocol is "<scheme>:".
ParseUrl(u) == [protocol |-> <<u.scheme, ":">>, hostname |-> ToLowerCase(u.host)]

\* url.protocol.slice(0, -1)
SchemeOf(url) == url.protocol[1]

\* Variant: the allow-list entry is compared as written.
DomainMatchesCaseSensitive(hostname, allowedDomain) ==
  \/ hostname = allowedDomain
  \/ EndsWith(hostname, Dot \o allowedDomain)

\* hostname === allowedDomain.toLowerCase() ||
\* hostname.endsWith(`.${allowedDomain.toLowerCase()}`)
DomainMatches(hostname, allowedDomain) ==
  \/ hostname = ToLowerCase(allowedDomain)
  \/ EndsWith(hostname, Dot \o ToLowerCase(allowedDomain))

\* urlConfig.allowedUrlDomains.some(...)
IsAllowed(hostname, domains) == \E d \in domains : DomainMatches(hostname, d)

\* Variant: an empty or absent allow-list is read as "no restriction".
DomainErrorEmptyAllowsAll(hostname, cfg) ==
  IF cfg.defined /\ ~cfg.allowAllUrlDomains
       /\ cfg.allowedUrlDomains.present /\ cfg.allowedUrlDomains.list # {}
       /\ ~IsAllowed(ToLowerCase(hostname), cfg.allowedUrlDomains.list)
    THEN Err("Domain is not allowed", "none")
    ELSE NoError

\* The domain validation: the error it throws, or NoError.
DomainError(hostname, cfg) ==
  IF cfg.defined /\ ~cfg.allowAllUrlDomains
    THEN IF ~cfg.allowedUrlDomains.present \/ cfg.allowedUrlDomains.list = {}
           THEN Err("No domains are allowed for URL uploads", "none")
         ELSE IF ~IsAllowed(ToLowerCase(hostname), cfg.allowedUrlDomains.list)
           THEN Err("Domain is not allowed", "none")
         ELSE NoError
    ELSE NoError

\* Everything fetchFileFromUrl checks before it arms the timer: the error, or NoError.
ValidationError(fs, cfg) ==
  IF ~fs.url.valid THEN Err("Invalid URL", "none")
  ELSE IF cfg.defined /\ SchemeOf(ParseUrl(fs.url)) \notin cfg.allowedUrlSchemes
    THEN Err("URL scheme is not allowed", "none")
  ELSE DomainError(ParseUrl(fs.url).hostname, cfg)

\* Variant: a response that declares no content length is refused as too large.
DeclaredTooLargeOrUnknown(len, cfg) ==
  /\ cfg.defined
  /\ cfg.maxUrlFileSizeBytes # 0
  /\ (len = -1 \/ len > cfg.maxUrlFileSizeBytes)

\* contentLength && urlConfig?.maxUrlFileSizeBytes && size > maxUrlFileSizeBytes
\* (len = -1: the response declares no content length)
DeclaredTooLarge(len, cfg) ==
  /\ len # -1
  /\ cfg.defined
  /\ cfg.maxUrlFileSizeBytes # 0
  /\ len > cfg.maxUrlFileSizeBytes

\* urlConfig?.maxUrlFileSizeBytes && totalSize > urlConfig.maxUrlFileSizeBytes
StreamTooLarge(total, cfg) ==
  /\ cfg.defined
  /\ cfg.maxUrlFileSizeBytes # 0
  /\ total > cfg.maxUrlFileSizeBytes

\* A value the || operator passes over: undefined or null ("none") or the empty
\* string.
Falsy(v) == v \in {"none", ""}

\* Variant: the content type the response declares wins over the caller's override.
EffectiveTypeHeaderFirst(mimeType, header) ==
  IF ~Falsy(header) THEN header
  ELSE IF ~Falsy(mimeType) THEN mimeType
  ELSE "application/octet-stream"

\* mimeType || response.headers.get('content-type') || 'application/octet-stream'
EffectiveType(mimeType, header) ==
  IF ~Falsy(mimeType) THEN mimeType
  ELSE IF ~Falsy(header) THEN header
  ELSE "application/octet-stream"

\* ------------------------------------------------------- fetchFileFromUrl
Pending == {"head", "get", "read"}

AbortError == Err("AbortError", "none")

NetworkError == Err("fetch failed", "none")

SizeError == Err("File size exceeds maximum allowed size", "none")

IdleFetch ==
  [pc |-> "idle", err |-> NoError, timer |-> "none", ctrlAborted |-> FALSE,
   listening |-> FALSE, headReqs |-> 0, getReqs |-> 0, headLen |-> -1,
   reads |-> 0, chunks |-> <<>>, totalSize |-> 0, sent |-> 0,
   contentType |-> "none", file |-> NoFile, firedDuring |-> "none",
   typeHeader |-> "none"]

\* catch: an AbortError is replaced by the timeout error, anything else rethrown.
CatchError(e) ==
  IF e.msg = "AbortError" THEN Err("URL fetch timeout or aborted", "none") ELSE e

\* Variant: the timer is not cleared when the call ends.
ClearTimerNever(t) == t

\* finally: if (timeoutId) clearTimeout(timeoutId)
ClearTimer(t) == IF t = "armed" THEN "cleared" ELSE t

\* Variant: a HEAD request that fails is issued once more before the call gives up.
FailAfterSecondHead(f, e) ==
  IF f.pc = "head" /\ f.headReqs < 2
    THEN [f EXCEPT !.headReqs = @ + 1]
    ELSE [f EXCEPT !.pc = "failed", !.err = CatchError(e), !.timer = ClearTimer(f.timer)]

\* The call leaves its try block with error e.
Fail(f, e) ==
  [f EXCEPT !.pc = "failed", !.err = CatchError(e), !.timer = ClearTimer(f.timer)]

\* urlConfig?.urlFetchTimeoutMs ? setTimeout(...) : null
ArmTimer(cfg) ==
  IF cfg.defined /\ cfg.urlFetchTimeoutMs # 0 THEN "armed" ELSE "none"

\* const combinedSignal = signal || controller.signal: requests listen to the
\* controller only when the caller gave no signal.
UsesController(sig) == sig = "none"

\* fetchFileFromUrl up to its first suspension: validation, timer, HEAD request.
StartFetch(fs, cfg, sig) ==
  IF ValidationError(fs, cfg) # NoError
    THEN [IdleFetch EXCEPT !.pc = "failed", !.err = ValidationError(fs, cfg)]
    ELSE [IdleFetch EXCEPT !.pc = "head", !.timer = ArmTimer(cfg),
                           !.listening = (sig # "none"), !.headReqs = 1]

\* -------------------------------------------------------------- upload call
NoResult ==
  [exists |-> FALSE, root |-> RawBlock(<<>>),
   url |-> [origin |-> "none", pathPrefix |-> <<>>, cid |-> RawBlock(<<>>),
            segs |-> <<>>, query |-> <<>>],
   files |-> {}]

NoRetrieve ==
  [done |-> FALSE, prefix |-> "", cid |-> RawBlock(<<>>), segs |-> <<>>, multi |-> FALSE,
   requests |-> 0, url |-> NoResult.url, served |-> "none", outcome |-> "none",
   err |-> "none", data |-> <<>>, type |-> "none",
   status |-> 0, bodyRead |-> FALSE, car |-> {}]

IdleUp ==
  [pc |-> "idle", op |-> "none", err |-> NoError, phaseAtCall |-> "none",
   dirCalls |-> 0, files |-> <<>>,
   backendOpts |-> [pieceHasher |-> "none", retries |-> 0],
   reports |-> <<>>, result |-> NoResult]

NewUp(op) == [IdleUp EXCEPT !.op = op, !.phaseAtCall = Phase]

Rejected(u, e) == [u EXCEPT !.pc = "rejected", !.err = e]

\* if (!this.initialized || !this.storage) throw new Error('Client not initialized')
NotInitialized == initialized = "null" \/ storage = "null"

\* Variant: the piece hasher is disabled only when publishToFilecoin is false.
PerformUploadPublishUnlessFalse(u, fileObjects) ==
  [u EXCEPT !.pc = "uploading",
            !.dirCalls = @ + 1,
            !.files = fileObjects,
            !.backendOpts =
               [pieceHasher |-> IF req.options.publishToFilecoin = "false"
                                  THEN "undefined" ELSE "default",
                retries |-> IF req.options.retries = -1 THEN 3
                            ELSE req.options.retries]]

\* performUpload up to its suspension: storage.uploadDirectory is invoked.
PerformUpload(u, fileObjects) ==
  [u EXCEPT !.pc = "uploading",
            !.dirCalls = @ + 1,
            !.files = fileObjects,
            !.backendOpts =
               [pieceHasher |-> IF req.options.publishToFilecoin = "true"
                                  THEN "default" ELSE "undefined",
                retries |-> IF req.options.retries = -1 THEN 3
                            ELSE req.options.retries]]

NFiles == Len(req.urlFiles)

\* Variant: the upload goes ahead once every fetch has settled, failed ones
\* included.
JoinAllSettled(u, nf) ==
  IF u.pc # "fetching" THEN u
  ELSE IF \A i \in 1..NFiles : nf[i].pc \in {"done", "failed"}
    THEN PerformUpload(u, [i \in 1..NFiles |-> nf[i].file])
  ELSE u

\* Promise.all over the fetches, then performUpload: what the upload call does
\* once the fetches are in state nf.
Join(u, nf) ==
  IF u.pc # "fetching" THEN u
  ELSE IF \E i \in 1..NFiles : nf[i].pc = "failed"
    THEN Rejected(u, nf[CHOOSE i \in 1..NFiles :
                          /\ nf[i].pc = "failed"
                          /\ \A j \in 1..NFiles : nf[j].pc = "failed" => i <= j].err)
  ELSE IF \A i \in 1..NFiles : nf[i].pc = "done"
    THEN PerformUpload(u, [i \in 1..NFiles |-> nf[i].file])
  ELSE u

\* The caller's discipline: a new upload call is issued once the previous one and
\* its fetches are over, and uploads come before retrievals.
Quiescent ==
  /\ up.pc \in {"idle", "resolved", "rejected"}
  /\ \A i \in FetchIds : fetch[i].pc \notin Pending

CanCall == Quiescent /\ ~rt.done

AllIdle == [i \in FetchIds |-> IdleFetch]

\* uploadFilesFromUrls up to its first suspension.
UploadFilesFromUrls ==
  /\ CanCall
  /\ IF NotInitialized
       THEN /\ up' = Rejected(NewUp("urls"), Err("Client not initialized", "none"))
            /\ fetch' = AllIdle
     ELSE IF signal = "aborted"
       THEN /\ up' = Rejected(NewUp("urls"), Err("Upload aborted", "none"))
            /\ fetch' = AllIdle
     ELSE LET nf == [i \in FetchIds |->
                       IF i <= NFiles
                         THEN StartFetch(req.urlFiles[i], req.urlConfig, signal)
                         ELSE IdleFetch]
          IN /\ fetch' = nf
             /\ up' = Join([NewUp("urls") EXCEPT !.pc = "fetching"], nf)
  /\ UNCHANGED <<lifeVars, inputVars, signal, store, rt>>

\* A step of fetch i, and what the upload call does on it.
SetFetch(i, f) ==
  /\ fetch' = [fetch EXCEPT ![i] = f]
  /\ up' = Join(up, [fetch EXCEPT ![i] = f])

HeadResponses ==
  {[kind |-> "error", ok |-> FALSE, len |-> -1],
   [kind |-> "response", ok |-> FALSE, len |-> -1]}
  \cup {[kind |-> "response", ok |-> TRUE, len |-> l] : l \in {-1} \cup 0..MaxBody}

\* The HEAD request settles; the GET request is issued when it passes.
HeadSettle(i) ==
  /\ fetch[i].pc = "head"
  /\ \E r \in HeadResponses :
       SetFetch(i,
         IF r.kind = "error" THEN Fail(fetch[i], NetworkError)
         ELSE IF ~r.ok
           THEN Fail(fetch[i], Err("Failed to fetch URL headers", "none"))
         ELSE IF DeclaredTooLarge(r.len, req.urlConfig)
           THEN Fail([fetch[i] EXCEPT !.headLen = r.len], SizeError)
         ELSE [fetch[i] EXCEPT !.headLen = r.len, !.pc = "get", !.getReqs = @ + 1])
  /\ UNCHANGED <<lifeVars, inputVars, signal, store, rt>>

GetResponses ==
  {[kind |-> "error", ok |-> FALSE, body |-> FALSE, type |-> "none"],
   [kind |-> "response", ok |-> FALSE, body |-> FALSE, type |-> "none"],
   [kind |-> "response", ok |-> TRUE, body |-> FALSE, type |-> "none"]}
  \cup {[kind |-> "response", ok |-> TRUE, body |-> TRUE, type |-> t] :
          t \in {"none", "", "text/plain", "Text/Plain"}}

\* The GET request settles; the first read of the body is issued when it passes.
GetSettle(i) ==
  /\ fetch[i].pc = "get"
  /\ \E r \in GetResponses :
       SetFetch(i,
         IF r.kind = "error" THEN Fail(fetch[i], NetworkError)
         ELSE IF ~r.ok THEN Fail(fetch[i], Err("Failed to fetch URL", "none"))
         ELSE IF ~r.body
           THEN Fail([fetch[i] EXCEPT
                        !.typeHeader = r.type,
                        !.contentType = EffectiveType(req.urlFiles[i].mimeType, r.type)],
                     Err("Response body is empty", "none"))
         ELSE [fetch[i] EXCEPT
                 !.typeHeader = r.type,
                 !.contentType = EffectiveType(req.urlFiles[i].mimeType, r.type),
                 !.pc = "read", !.reads = @ + 1])
  /\ UNCHANGED <<lifeVars, inputVars, signal, store, rt>>

\* Variant: only the latest chunk is kept.
RetainLatestOnly(chunks, value) == <<value>>

\* chunks.push(value)
Retain(chunks, value) == Append(chunks, value)

\* The chunks copied one after the other into a buffer of their total length.
Combine(chunks) == Concat(chunks)

\* reader.read() delivers the next k bytes of the body: the size check, then
\* either the error or chunks.push(value) and the next read.
ReadChunk(i) ==
  /\ fetch[i].pc = "read"
  /\ \E k \in 1..MaxChunk :
       /\ fetch[i].sent + k <= Len(remote[i].body)
       /\ LET f == [fetch[i] EXCEPT !.totalSize = @ + k, !.sent = @ + k]
              value == SubSeq(remote[i].body, fetch[i].sent + 1, fetch[i].sent + k)
          IN SetFetch(i,
               IF StreamTooLarge(f.totalSize, req.urlConfig)
                 THEN Fail(f, SizeError)
                 ELSE [f EXCEPT !.chunks = Retain(@, value), !.reads = @ + 1])
  /\ UNCHANGED <<lifeVars, inputVars, signal, store, rt>>

\* reader.read() reports done: the chunks are combined and the File is returned.
ReadDone(i) ==
  /\ fetch[i].pc = "read"
  /\ fetch[i].sent = Len(remote[i].body)
  /\ SetFetch(i, [fetch[i] EXCEPT
                    !.pc = "done",
                    !.timer = ClearTimer(@),
                    !.file = File(Combine(fetch[i].chunks), req.urlFiles[i].name,
                                  fetch[i].contentType)])
  /\ UNCHANGED <<lifeVars, inputVars, signal, store, rt>>

\* reader.read() rejects: the connection broke while the body was streamed.
ReadError(i) ==
  /\ fetch[i].pc = "read"
  /\ SetFetch(i, Fail(fetch[i], NetworkError))
  /\ UNCHANGED <<lifeVars, inputVars, signal, store, rt>>

\* The timeout fires: controller.abort(). A request listening to the controller's
\* signal rejects with an AbortError. firedDuring records that a cancellation
\* source fired while an operation of the call was pending.
TimerFire(i) ==
  /\ fetch[i].timer = "armed"
  /\ SetFetch(i,
       IF UsesController(signal) /\ fetch[i].pc \in Pending
         THEN Fail([fetch[i] EXCEPT !.timer = "fired", !.ctrlAborted = TRUE,
                                    !.firedDuring = "timer"], AbortError)
         ELSE [fetch[i] EXCEPT !.timer = "fired", !.ctrlAborted = TRUE,
                               !.firedDuring = IF fetch[i].pc \in Pending
                                                 THEN "timer" ELSE @])
  /\ UNCHANGED <<lifeVars, inputVars, signal, store, rt>>

\* The caller aborts options.signal: every listener aborts its controller and
\* every request made with the signal rejects with an AbortError.
ExternalAbort ==
  /\ signal = "live"
  /\ signal' = "aborted"
  /\ LET nf == [i \in FetchIds |->
                  IF fetch[i].pc \in Pending
                    THEN Fail([fetch[i] EXCEPT !.ctrlAborted = TRUE,
                                               !.firedDuring = "signal"], AbortError)
                  ELSE IF fetch[i].listening
                    THEN [fetch[i] EXCEPT !.ctrlAborted = TRUE]
                  ELSE fetch[i]]
     IN /\ fetch' = nf
        /\ up' = Join(up, nf)
  /\ UNCHANGED <<lifeVars, inputVars, store, rt>>

\* uploadFiles up to its first suspension: the files are decoded and handed on.
UploadFiles ==
  /\ CanCall
  /\ fetch' = AllIdle
  /\ IF NotInitialized
       THEN up' = Rejected(NewUp("files"), Err("Client not initialized", "none"))
     ELSE IF signal = "aborted"
       THEN up' = Rejected(NewUp("files"), Err("Upload aborted", "none"))
     ELSE IF \E k \in 1..Len(req.b64Files) : ~Base64ToBytes(req.b64Files[k].content).ok
       THEN up' = Rejected(NewUp("files"), Err("Invalid base64", "none"))
     ELSE up' = PerformUpload(NewUp("files"),
                  [k \in 1..Len(req.b64Files) |->
                     File(Base64ToBytes(req.b64Files[k].content).bytes,
                          req.b64Files[k].name, "")])
  /\ UNCHANGED <<lifeVars, inputVars, signal, store, rt>>

\* The entries the backend reports through onDirectoryEntryLink while it stores
\* the directory: each file under its name, then the directory itself, unnamed.
Reports(files) ==
  [k \in 1..Len(files) |-> Link(files[k].name, FileCid(files[k].bytes))]
    \o <<Link("", DirCid(files))>>

RECURSIVE AccumulateFirstWins(_, _)
\* Variant: the first report of a name is kept and later ones are dropped.
AccumulateFirstWins(m, reports) ==
  IF Len(reports) = 0 THEN m
  ELSE AccumulateFirstWins(
         IF Head(reports).name # "" /\ ~\E e \in m : e[1] = Head(reports).name
           THEN m \cup {<<Head(reports).name, Head(reports).cid>>}
           ELSE m,
         Tail(reports))

RECURSIVE Accumulate(_, _)
\* onDirectoryEntryLink over the backend's reports: named entries are kept, the
\* latest report of a name wins.
Accumulate(m, reports) ==
  IF Len(reports) = 0 THEN m
  ELSE Accumulate(
         IF Head(reports).name # ""
           THEN {e \in m : e[1] # Head(reports).name}
                  \cup {<<Head(reports).name, Head(reports).cid>>}
           ELSE m,
         Tail(reports))

\* storage.uploadDirectory settles: the result is assembled, or the backend's
\* error is passed on.
UploadSettle ==
  /\ up.pc = "uploading"
  /\ \E r \in {"ok"} \cup BackendErrors :
       IF r = "ok"
         THEN /\ up' = [up EXCEPT
                   !.pc = "resolved",
                   !.reports = Reports(up.files),
                   !.result =
                     [exists |-> TRUE,
                      root |-> DirCid(up.files),
                      url |-> ResolveUrl(DirCid(up.files), <<>>, "", config.gatewayUrl),
                      files |-> Accumulate({}, Reports(up.files))]]
              /\ store' = store \cup {[root |-> DirCid(up.files), op |-> up.op]}
         ELSE /\ up' = Rejected(up, Err(r, "none"))
              /\ UNCHANGED store
  /\ UNCHANGED <<lifeVars, inputVars, signal, fetch, rt>>

\* --------------------------------------------------------------- retrieve
\* Every block reachable from a root: the directory, its files, their leaves.
Closure(root) ==
  {root}
  \cup {root.links[k].cid : k \in 1..Len(root.links)}
  \cup UNION {{root.links[k].cid.links[j].cid : j \in 1..Len(root.links[k].cid.links)} :
               k \in 1..Len(root.links)}

RECURSIVE Walk(_, _, _)
\* The exporter resolves the path from the root, asking get(cid) for each block.
Walk(car, cid, segs) ==
  IF cid \notin car THEN [ok |-> FALSE, err |-> "not found", node |-> cid]
  ELSE IF Len(segs) = 0 THEN [ok |-> TRUE, err |-> "none", node |-> cid]
  ELSE IF \E k \in 1..Len(cid.links) : cid.links[k].name = Head(segs)
    THEN Walk(car,
              cid.links[CHOOSE k \in 1..Len(cid.links) : cid.links[k].name = Head(segs)].cid,
              Tail(segs))
  ELSE [ok |-> FALSE, err |-> "path does not exist", node |-> cid]

\* Variant: a leaf the archive lacks is skipped and the export carries on.
ContentSkipsMissing(car, node) ==
  IF node.codec = "raw" THEN [ok |-> TRUE, err |-> "none", bytes |-> node.data]
  ELSE IF node.codec = "file"
    THEN [ok |-> TRUE, err |-> "none",
          bytes |-> Concat([k \in 1..Len(node.links) |->
                              IF node.links[k].cid \in car
                                THEN node.links[k].cid.data ELSE <<>>])]
  ELSE [ok |-> FALSE, err |-> "not a file", bytes |-> <<>>]

\* entry.content() drained: the bytes of the entry, each leaf fetched by get(cid).
Content(car, node) ==
  IF node.codec = "raw" THEN [ok |-> TRUE, err |-> "none", bytes |-> node.data]
  ELSE IF node.codec = "file"
    THEN IF \A k \in 1..Len(node.links) : node.links[k].cid \in car
           THEN [ok |-> TRUE, err |-> "none",
                 bytes |-> Concat([k \in 1..Len(node.links) |-> node.links[k].cid.data])]
           ELSE [ok |-> FALSE, err |-> "not found", bytes |-> <<>>]
  ELSE [ok |-> FALSE, err |-> "not a file", bytes |-> <<>>]

\* The statuses the gateway answers with when it does not serve the archive.
FailureStatuses == {304, 404, 500}

\* What the gateway may answer to a request: no answer at all, a failure status
\* (whose body, an error page, is no archive), or, for a stored root, the archive,
\* whole or short of one block, when the request carries format=car and the
\* default representation, which is no archive, when it does not.
GatewayResponses(url) ==
  {[kind |-> "error", status |-> 0, served |-> "none", car |-> {}, type |-> "none"]}
  \cup {[kind |-> "response", status |-> st, served |-> "none", car |-> {},
          type |-> "text/html"] : st \in FailureStatuses}
  \cup
  (IF url.query = <<"format=car">> /\ \E e \in store : e.root = url.cid
     THEN {[kind |-> "response", status |-> 200, served |-> "complete",
            car |-> Closure(url.cid), type |-> "application/vnd.ipld.car"]}
          \cup {[kind |-> "response", status |-> 200, served |-> "partial",
                 car |-> Closure(url.cid) \ {b}, type |-> "none"] : b \in Closure(url.cid)}
     ELSE {})
  \cup
  (IF url.query # <<"format=car">> /\ \E e \in store : e.root = url.cid
     THEN {[kind |-> "response", status |-> 200, served |-> "raw", car |-> {},
            type |-> "application/octet-stream"]}
     ELSE {})

\* Variant: the status of the response is not looked at.
ResponseOkAlways(resp) == TRUE

\* response.ok: the status is in the range 200-299.
ResponseOk(resp) == resp.status \in 200..299

\* retrieve, given the gateway's answer.
RetrieveResult(path, multi, resp) ==
  LET resource == ParseIpfsPath(path)
      url == ResolveUrl(resource.cid, resource.pathname, "format=car", config.gatewayUrl)
      base == [NoRetrieve EXCEPT !.done = TRUE, !.prefix = path.prefix, !.cid = path.id.cid,
                                 !.segs = path.segs, !.multi = multi]
      sent == [base EXCEPT !.requests = 1, !.url = url, !.served = resp.served,
                           !.status = resp.status]
      read == [sent EXCEPT !.bodyRead = TRUE, !.car = resp.car]
      entry == Walk(resp.car, resource.cid, resource.pathname)
  IN IF ~resource.ok THEN [base EXCEPT !.outcome = "error", !.err = "Invalid IPFS path"]
     ELSE IF resp.kind = "error" THEN [sent EXCEPT !.outcome = "error", !.err = "fetch failed"]
     ELSE IF ~ResponseOk(resp)
       THEN [sent EXCEPT !.outcome = "error", !.err = "Error fetching file"]
     ELSE IF resp.served = "raw"
       THEN [sent EXCEPT !.bodyRead = TRUE, !.outcome = "error", !.err = "Invalid CAR"]
     ELSE IF ~entry.ok THEN [read EXCEPT !.outcome = "error", !.err = entry.err]
     ELSE IF ~Content(resp.car, entry.node).ok
       THEN [read EXCEPT !.outcome = "error", !.err = Content(resp.car, entry.node).err]
     ELSE [read EXCEPT !.outcome = "ok",
                       !.data = StreamToBase64(Content(resp.car, entry.node).bytes, multi),
                       !.type = resp.type]

\* The names a caller may ask for under a stored root.
NamesOf(root) == {root.links[k].name : k \in 1..Len(root.links)} \cup {"missing.txt"}

\* retrieve(filepath, options): one call, made while no upload is in flight.
Retrieve ==
  /\ Quiescent
  /\ ~rt.done
  /\ \E e \in store, prefix \in PathPrefixes \cup {"ipns://"}, multi \in BOOLEAN :
       \E name \in NamesOf(e.root) :
         LET path == [prefix |-> prefix, id |-> [valid |-> TRUE, cid |-> e.root],
                      segs |-> <<name>>]
             url == ResolveUrl(e.root, <<name>>, "format=car", config.gatewayUrl)
         IN \E resp \in GatewayResponses(url) :
              rt' = RetrieveResult(path, multi, resp)
  /\ UNCHANGED <<lifeVars, inputVars, uploadVars>>

\* The paths below a stored root that have nested segments or end in a
\* query-like suffix.
LongPaths(root) ==
  UNION {{<<n, "sub.txt">>, <<n, "?", "v=1">>} : n \in NamesOf(root)}

\* retrieve(filepath, options) for a path with nested segments or a query-like
\* suffix.
RetrieveLongPath ==
  /\ Quiescent
  /\ ~rt.done
  /\ \E e \in store, prefix \in PathPrefixes, multi \in BOOLEAN :
       \E segs \in LongPaths(e.root) :
         LET path == [prefix |-> prefix, id |-> [valid |-> TRUE, cid |-> e.root],
                      segs |-> segs]
             url == ResolveUrl(e.root, segs, "format=car", config.gatewayUrl)
         IN \E resp \in GatewayResponses(url) :
              rt' = RetrieveResult(path, multi, resp)
  /\ UNCHANGED <<lifeVars, inputVars, uploadVars>>

\* ------------------------------------------------------------------ inputs
Gateway == [origin |-> "https://storacha.link", pathPrefix |-> <<>>]

ByteVals == {0, 77}

\* Every byte sequence of at most n bytes.
BytesUpTo(n) == UNION {[1..k -> ByteVals] : k \in 0..n}

NoDomainList == [present |-> FALSE, list |-> {}]

DomainList(list) == [present |-> TRUE, list |-> list]

UndefinedConfig ==
  [defined |-> FALSE, maxUrlFileSizeBytes |-> 0, allowedUrlSchemes |-> {},
   urlFetchTimeoutMs |-> 0, allowAllUrlDomains |-> FALSE,
   allowedUrlDomains |-> NoDomainList]

Policy(maxBytes, schemes, timeoutMs, allowAll, domains) ==
  [defined |-> TRUE, maxUrlFileSizeBytes |-> maxBytes, allowedUrlSchemes |-> schemes,
   urlFetchTimeoutMs |-> timeoutMs, allowAllUrlDomains |-> allowAll,
   allowedUrlDomains |-> domains]

Url(scheme, host) == [valid |-> TRUE, scheme |-> scheme, host |-> host]

MalformedUrl == [valid |-> FALSE, scheme |-> "", host |-> <<>>]

UrlFile(url, name, mimeType) == [url |-> url, name |-> name, mimeType |-> mimeType]

InlineFile(name, bytes) == [name |-> name, content |-> Base64Encode(bytes)]

DefaultOptions == [publishToFilecoin |-> "absent", retries |-> -1]

\* The options the upload tool handler passes for its input:
\* { retries: 3, publishToFilecoin: input.publishToFilecoin ?? false }
HandlerOptions(publishToFilecoin) ==
  [publishToFilecoin |-> IF publishToFilecoin = "absent" THEN "false"
                         ELSE publishToFilecoin,
   retries |-> 3]

\* tool: "direct" for a call made on the client, else the publishToFilecoin of
\* the tool input the handler made the call for.
Request(urlFiles, b64Files, cfg) ==
  [urlFiles |-> urlFiles, b64Files |-> b64Files, urlConfig |-> cfg,
   options |-> DefaultOptions, tool |-> "direct"]

\* A client no upload or retrieve call has been made on.
NoUploads ==
  /\ up = IdleUp
  /\ fetch = AllIdle
  /\ store = {}
  /\ rt = NoRetrieve

\* A client on which one initialize() call has completed successfully.
ReadyClient ==
  /\ config = [signer |-> TRUE, delegation |-> TRUE, gatewayUrl |-> Gateway]
  /\ initialized = "fulfilled"
  /\ initError = NoError
  /\ storage = "client"
  /\ initPc = "done"
  /\ createCalls = 1
  /\ addSpaceCalls = 1
  /\ calls = [c \in CallIds |->
                IF c = 1 THEN [st |-> "fulfilled", err |-> NoError,
                               phaseAtCall |-> "Uninitialized"]
                ELSE IdleCall]

\* ------------------------------------------------------------ specifications
\* The client from construction: initialisation racing with upload calls.
InitLife ==
  /\ config \in [signer : BOOLEAN, delegation : BOOLEAN, gatewayUrl : {Gateway}]
  /\ initialized = "null"
  /\ initError = NoError
  /\ storage = "null"
  /\ initPc = "none"
  /\ createCalls = 0
  /\ addSpaceCalls = 0
  /\ calls = [c \in CallIds |-> IdleCall]
  /\ payload = [i \in FetchIds |-> IF i = 1 THEN <<77>> ELSE <<>>]
  /\ remote = [i \in FetchIds |-> [body |-> payload[i]]]
  /\ req = Request(<<UrlFile(Url("https", H_a_b_com), "a.txt", "none")>>,
                   <<InlineFile("a.txt", payload[1])>>,
                   Policy(MaxBytes, {"https"}, 300000, TRUE, NoDomainList))
  /\ signal = "live"
  /\ NoUploads

FetchStep(i) ==
  \/ HeadSettle(i)
  \/ GetSettle(i)
  \/ ReadChunk(i)
  \/ ReadDone(i)
  \/ ReadError(i)

Next ==
  \/ \E c \in CallIds : Initialize(c)
  \/ CreateSettle
  \/ AddSpaceSettle
  \/ \E c \in CallIds : CallSettle(c)
  \/ UploadFiles
  \/ UploadFilesFromUrls
  \/ \E i \in FetchIds : FetchStep(i)
  \/ \E i \in FetchIds : TimerFire(i)
  \/ ExternalAbort
  \/ UploadSettle

Spec == InitLife /\ [][Next]_vars

\* The URL upload path on a ready client, over policies, URLs and servers.
FetchPolicies ==
  {UndefinedConfig}
  \cup {Policy(m, {"https"}, t, a, d) :
          m \in 0..MaxBytes, t \in {0, 300000}, a \in {TRUE}, d \in {NoDomainList}}
  \cup {Policy(m, {"https"}, t, a, d) :
          m \in 0..MaxBytes, t \in {0, 300000}, a \in {FALSE},
          d \in {NoDomainList, DomainList({}), DomainList({H_b_com})}}

FetchUrls ==
  {MalformedUrl, Url("https", H_a_b_com), Url("ftp", H_a_b_com), Url("https", H_x_b_com),
   Url("https", H_b_com_x_net)}

InitFetch ==
  /\ ReadyClient
  /\ payload = [i \in FetchIds |-> <<>>]
  /\ \E n \in 0..MaxBody :
       remote = [i \in FetchIds |-> [body |-> IF i = 1 THEN [k \in 1..n |-> k] ELSE <<>>]]
  /\ \E u \in FetchUrls, mt \in {"none", "", "image/png", "Image/PNG"}, cfg \in FetchPolicies :
       req = Request(<<UrlFile(u, "a.txt", mt)>>, <<InlineFile("a.txt", <<>>)>>, cfg)
  /\ signal \in {"none", "live"}
  /\ NoUploads

NextFetch ==
  \/ UploadFilesFromUrls
  \/ \E i \in FetchIds : FetchStep(i)
  \/ \E i \in FetchIds : TimerFire(i)
  \/ ExternalAbort
  \/ UploadSettle

SpecFetch == InitFetch /\ [][NextFetch]_vars

\* The domain policy over hosts and allow-lists.
MaxDomains == 2

DomainEntries ==
  {H_a_b_com, H_A_B_COM, H_b_com, H_B_Com, H_x_b_com, H_com, H_ab_com, H_empty}

DomainHosts == {H_a_b_com, H_A_B_COM, H_x_b_com, H_b_com, H_ab_com, H_b_com_x_net}

DomainLists == {l \in SUBSET DomainEntries : Cardinality(l) <= MaxDomains}

InitDomain ==
  /\ ReadyClient
  /\ payload = [i \in FetchIds |-> <<>>]
  /\ remote = [i \in FetchIds |-> [body |-> IF i = 1 THEN <<1>> ELSE <<>>]]
  /\ \E h \in DomainHosts, l \in DomainLists :
       req = Request(<<UrlFile(Url("https", h), "a.txt", "none")>>,
                     <<InlineFile("a.txt", <<>>)>>,
                     Policy(MaxBytes, {"https"}, 300000, FALSE, DomainList(l)))
  /\ signal = "live"
  /\ NoUploads

SpecDomain == InitDomain /\ [][NextFetch]_vars

\* Upload by either path on a ready client, then retrieval through the gateway.
InitRound ==
  /\ ReadyClient
  /\ \E b \in BytesUpTo(MaxBody) :
       payload = [i \in FetchIds |-> IF i = 1 THEN b ELSE <<255>>]
  /\ remote = [i \in FetchIds |-> [body |-> payload[i]]]
  /\ req = Request(<<UrlFile(Url("https", H_a_b_com), "a.txt", "none")>>,
                   <<InlineFile("a.txt", payload[1]), InlineFile("b.bin", payload[2])>>,
                   Policy(MaxBody, {"https"}, 0, TRUE, NoDomainList))
  /\ signal = "none"
  /\ NoUploads

\* Upload calls with options, made on the client or by the tool handler, over
\* files whose names repeat or are empty; then retrieval.
Tristate == {"absent", "false", "true"}

RetryCounts == {-1, 0, 5}

CallOptions ==
  {[tool |-> "direct", options |-> [publishToFilecoin |-> p, retries |-> r]] :
     p \in Tristate, r \in RetryCounts}
  \cup {[tool |-> p, options |-> HandlerOptions(p)] : p \in Tristate}

FileNames == {<<"a.txt", "b.bin">>, <<"a.txt", "a.txt">>, <<"", "b.bin">>}

InitCalls ==
  /\ ReadyClient
  /\ payload = [i \in FetchIds |-> IF i = 1 THEN <<77>> ELSE <<0>>]
  /\ remote = [i \in FetchIds |-> [body |-> payload[i]]]
  /\ \E names \in FileNames, o \in CallOptions :
       req = [Request(<<UrlFile(Url("https", H_a_b_com), names[1], "none")>>,
                      <<InlineFile(names[1], payload[1]), InlineFile(names[2], payload[2])>>,
                      Policy(MaxBody, {"https"}, 0, TRUE, NoDomainList))
                EXCEPT !.options = o.options, !.tool = o.tool]
  /\ signal = "none"
  /\ NoUploads

NextRound ==
  \/ UploadFiles
  \/ UploadFilesFromUrls
  \/ \E i \in FetchIds : FetchStep(i)
  \/ UploadSettle
  \/ Retrieve

SpecRound == InitRound /\ [][NextRound]_vars

SpecCalls == InitCalls /\ [][NextRound]_vars

\* One upload call over two URLs, each well-formed or not, under a timeout or
\* none, with or without a signal of the caller.
InitMulti ==
  /\ ReadyClient
  /\ payload = [i \in FetchIds |-> <<>>]
  /\ remote = [i \in FetchIds |-> [body |-> IF i = 1 THEN <<1>> ELSE <<2>>]]
  /\ \E u1 \in {MalformedUrl, Url("https", H_a_b_com)},
        u2 \in {MalformedUrl, Url("https", H_x_b_com)}, t \in {0, 300000} :
       req = Request(<<UrlFile(u1, "a.txt", "none"), UrlFile(u2, "b.bin", "none")>>,
                     <<InlineFile("a.txt", <<>>)>>,
                     Policy(MaxBytes, {"https"}, t, TRUE, NoDomainList))
  /\ signal \in {"none", "live"}
  /\ NoUploads

SpecMulti == InitMulti /\ [][NextFetch]_vars

\* Upload and retrieval through gateways whose base URL has a path of its own or
\* none, with paths that are nested or carry a query-like suffix.
Gateways ==
  {Gateway,
   [origin |-> "https://gw.example", pathPrefix |-> <<>>],
   [origin |-> "https://gw.example", pathPrefix |-> <<"gateway">>]}

InitUrl ==
  /\ config \in [signer : {TRUE}, delegation : {TRUE}, gatewayUrl : Gateways]
  /\ initialized = "fulfilled"
  /\ initError = NoError
  /\ storage = "client"
  /\ initPc = "done"
  /\ createCalls = 1
  /\ addSpaceCalls = 1
  /\ calls = [c \in CallIds |->
                IF c = 1 THEN [st |-> "fulfilled", err |-> NoError,
                               phaseAtCall |-> "Uninitialized"]
                ELSE IdleCall]
  /\ \E b \in BytesUpTo(MaxBody) :
       payload = [i \in FetchIds |-> IF i = 1 THEN b ELSE <<>>]
  /\ remote = [i \in FetchIds |-> [body |-> payload[i]]]
  /\ req = Request(<<UrlFile(Url("https", H_a_b_com), "a.txt", "none")>>,
                   <<InlineFile("a.txt", payload[1])>>,
                   Policy(MaxBody, {"https"}, 0, TRUE, NoDomainList))
  /\ signal = "none"
  /\ NoUploads

NextUrl ==
  \/ UploadFiles
  \/ UploadSettle
  \/ Retrieve
  \/ RetrieveLongPath

SpecUrl == InitUrl /\ [][NextUrl]_vars

\* ------------------------------------------------------------------ claims
Settled(c) == calls[c].st \in {"fulfilled", "rejected"}

HasCredentials == config.signer /\ config.delegation

SameOutcome ==
  \A c, d \in CallIds :
    Settled(c) /\ Settled(d) => calls[c].st = calls[d].st /\ calls[c].err = calls[d].err

\* C1 as stated: once all N initialize() calls on a client with signer and
\* delegation have settled, Storage.create and addSpace have each been attempted
\* exactly once and all calls have the same outcome.
C1_EachExactlyOnce ==
  (HasCredentials /\ \A c \in CallIds : Settled(c))
    => /\ createCalls = 1
       /\ addSpaceCalls = 1
       /\ SameOutcome

\* C1 amended: for any number of initialize() calls, in any interleaving,
\* Storage.create is attempted exactly once, addSpace at most once (exactly once
\* when Storage.create succeeded, never when it failed), and the calls that have
\* settled have the same outcome (all resolved, or all rejected with the same error).
C1_CreateOnceAddSpaceAtMostOnce ==
  HasCredentials
    => /\ createCalls <= 1
       /\ ((\E c \in CallIds : calls[c].st # "idle") => createCalls = 1)
       /\ addSpaceCalls <= 1
       /\ (addSpaceCalls = 1 <=> storage = "client")
       /\ (initialized = "rejected" /\ storage = "null" => addSpaceCalls = 0)
       /\ SameOutcome

\* All N calls were issued before the initialisation settled, and have resolved.
C1_Witness ==
  /\ HasCredentials
  /\ \A c \in CallIds : calls[c].st = "fulfilled"
                          /\ calls[c].phaseAtCall \in {"Uninitialized", "Initializing"}
  /\ \E c \in CallIds : calls[c].phaseAtCall = "Initializing"
  /\ createCalls = 1
  /\ addSpaceCalls = 1

\* C2 as stated: an upload call made in any state other than Ready fails with
\* 'Client not initialized' and makes no backend or network call, so
\* uploadDirectory is only ever called by an upload made in the Ready state.
C2_UploadOnlyWhenReady ==
  (up.pc # "idle" /\ up.phaseAtCall # "Ready")
    => /\ up.pc = "rejected"
       /\ up.err.msg = "Client not initialized"
       /\ up.dirCalls = 0
       /\ \A i \in FetchIds : fetch[i].headReqs = 0 /\ fetch[i].getReqs = 0

\* C3 as stated: with fetchTimeoutMs > 0, a cancellation source (the timer or the
\* caller's signal) firing while the HEAD request, the GET request or a body read
\* is pending makes the call fail with 'URL fetch timeout or aborted'.
C3_EitherSourceAborts ==
  \A i \in FetchIds :
    (req.urlConfig.defined /\ req.urlConfig.urlFetchTimeoutMs > 0
       /\ fetch[i].firedDuring # "none")
      => /\ fetch[i].pc = "failed"
         /\ fetch[i].err.msg = "URL fetch timeout or aborted"

\* The bytes a fetch currently retains.
RetainedBytes(i) == Len(Concat(fetch[i].chunks))

\* C4 as stated: for every policy (maxBytes = 0 included) the streaming loop never
\* retains more than maxBytes, and once the running total exceeds maxBytes the call
\* has failed with the size error and produced no File.
C4_StreamingBound ==
  \A i \in FetchIds :
    req.urlConfig.defined
      => /\ RetainedBytes(i) <= req.urlConfig.maxUrlFileSizeBytes
         /\ (fetch[i].totalSize > req.urlConfig.maxUrlFileSizeBytes
               => /\ fetch[i].pc = "failed"
                  /\ fetch[i].err = SizeError
                  /\ ~fetch[i].file.exists)

\* C5 as stated: for every policy (maxBytes = 0 included), when the HEAD response
\* declares a content length above maxBytes the call fails with the size error and
\* the GET request is never issued.
C5_PredeclaredStopsGet ==
  \A i \in FetchIds :
    (req.urlConfig.defined /\ fetch[i].headLen > req.urlConfig.maxUrlFileSizeBytes)
      => /\ fetch[i].pc = "failed"
         /\ fetch[i].err = SizeError
         /\ fetch[i].getReqs = 0

\* C6: once the initialisation has failed, the memoised failure stays: no step
\* changes it or its error, none calls Storage.create or addSpace again, the
\* client never becomes Ready, and every initialize() call that settles, settles
\* rejected with that same error.
C6_FailureIsTerminal ==
  [][initialized = "rejected"
       => /\ initialized' = "rejected"
          /\ initError' = initError
          /\ createCalls' = createCalls
          /\ addSpaceCalls' = addSpaceCalls
          /\ \A c \in CallIds :
               (~Settled(c) /\ calls'[c].st \in {"fulfilled", "rejected"})
                 => calls'[c].st = "rejected" /\ calls'[c].err = initError]_vars

\* An initialize() call issued after the failure has been rejected with its error.
C6_Witness ==
  /\ initialized = "rejected"
  /\ \E c \in CallIds : /\ calls[c].phaseAtCall = "Failed"
                        /\ calls[c].st = "rejected"
                        /\ calls[c].err = initError
  /\ createCalls = 1

\* C7: a fetchFileFromUrl call that has settled, by returning or by throwing on
\* any path, has no timeout timer still armed.
C7_NoTimerAfterSettle ==
  \A i \in FetchIds : fetch[i].pc \in {"done", "failed"} => fetch[i].timer # "armed"

\* A call that armed its timer and then failed on a network error has cleared it.
C7_Witness ==
  \E i \in FetchIds : /\ fetch[i].pc = "failed"
                      /\ fetch[i].err = NetworkError
                      /\ fetch[i].reads > 0
                      /\ fetch[i].timer = "cleared"

\* The host of the requested URL as fetchFileFromUrl compares it.
RequestedHost == ToLowerCase(req.urlFiles[1].url.host)

\* The domain check of the first requested URL has been made, and passed.
DomainChecked == fetch[1].pc # "idle"

Accepted == fetch[1].headReqs = 1

ListedLower == {ToLowerCase(e) : e \in req.urlConfig.allowedUrlDomains.list}

\* A host and every domain it is a strict subdomain of.
SelfAndAncestors(h) ==
  {h} \cup {SubSeq(h, k + 1, Len(h)) : k \in {j \in 1..Len(h) : h[j] = "."}}

\* C8 as stated: with allowAllDomains false, host a.b.com is accepted if and only
\* if the allow-list holds, case-insensitively, a.b.com or b.com.
C8_ExactOrParentOnly ==
  (DomainChecked /\ ~req.urlConfig.allowAllUrlDomains /\ RequestedHost = H_a_b_com)
    => (Accepted <=> ListedLower \cap {H_a_b_com, H_b_com} # {})

\* C8 amended: with allowAllDomains false, a host is accepted if and only if the
\* allow-list holds, case-insensitively, the host itself or a domain the host is a
\* strict subdomain of: for a.b.com that is a.b.com, b.com or com. A sibling entry
\* (x.b.com) or an entry that is a non-suffix part of the host (b.com against
\* b.com.x.net) does not admit it.
C8_ExactOrAnyAncestor ==
  (DomainChecked /\ ~req.urlConfig.allowAllUrlDomains)
    => /\ Accepted <=> ListedLower \cap SelfAndAncestors(RequestedHost) # {}
       /\ RequestedHost = H_a_b_com
            => (Accepted <=> ListedLower \cap {H_a_b_com, H_b_com, H_com} # {})
       /\ (RequestedHost = H_a_b_com /\ ListedLower \subseteq {H_x_b_com, H_ab_com, H_empty})
            => ~Accepted
       /\ RequestedHost = H_b_com_x_net => ~Accepted

\* a.b.com is admitted by an entry that differs from its parent domain in case only.
C8_Witness ==
  /\ DomainChecked
  /\ RequestedHost = H_a_b_com
  /\ req.urlConfig.allowedUrlDomains.list = {H_B_Com, H_x_b_com}
  /\ Accepted

\* C9: with allowAllDomains false and an empty or absent allow-list, a call with a
\* well-formed URL of an allowed scheme is rejected with the no-domains-allowed
\* error, for every host, before any timer is armed or request issued.
C9_EmptyAllowListRejects ==
  \A i \in 1..NFiles :
    (/\ fetch[i].pc # "idle"
     /\ req.urlConfig.defined
     /\ ~req.urlConfig.allowAllUrlDomains
     /\ (~req.urlConfig.allowedUrlDomains.present \/ req.urlConfig.allowedUrlDomains.list = {})
     /\ req.urlFiles[i].url.valid
     /\ req.urlFiles[i].url.scheme \in req.urlConfig.allowedUrlSchemes)
      => /\ fetch[i].pc = "failed"
         /\ fetch[i].err.msg = "No domains are allowed for URL uploads"
         /\ fetch[i].headReqs = 0
         /\ fetch[i].getReqs = 0
         /\ fetch[i].timer = "none"
         /\ up.pc = "rejected"
         /\ up.dirCalls = 0

\* A call under a policy whose allow-list is absent has been rejected.
C9_Witness ==
  /\ fetch[1].pc = "failed"
  /\ fetch[1].err.msg = "No domains are allowed for URL uploads"
  /\ req.urlConfig.defined
  /\ ~req.urlConfig.allowedUrlDomains.present
  /\ req.urlFiles[1].url = Url("https", H_a_b_com)

\* What the caller meant to store by an upload call: names and bytes.
Expected(op) ==
  IF op = "files"
    THEN [k \in 1..Len(req.b64Files) |->
            [name |-> req.b64Files[k].name, bytes |-> payload[k]]]
    ELSE [k \in 1..NFiles |-> [name |-> req.urlFiles[k].name, bytes |-> remote[k].body]]

\* The retrieve call asked, in a recognised form, for a file stored by an upload,
\* and the gateway served every stored block.
RetrievedStored(e, k) ==
  /\ rt.done
  /\ rt.prefix \in PathPrefixes
  /\ rt.served = "complete"
  /\ e.root = rt.cid
  /\ k \in 1..Len(Expected(e.op))
  /\ rt.segs = <<Expected(e.op)[k].name>>

NeededBlocks ==
  {rt.cid}
  \cup UNION {{rt.cid.links[k].cid}
                \cup {rt.cid.links[k].cid.links[j].cid :
                        j \in 1..Len(rt.cid.links[k].cid.links)} :
              k \in {n \in 1..Len(rt.cid.links) : <<rt.cid.links[n].name>> = rt.segs}}

\* C11: when the archive the gateway returned lacks a block the export of the
\* requested path needs, retrieve fails with the not-found error and returns no
\* result: no data, not even a prefix of the content.
C11_MissingBlockFails ==
  (rt.done /\ rt.bodyRead /\ NeededBlocks \ rt.car # {})
    => /\ rt.outcome = "error"
       /\ rt.err = "not found"
       /\ rt.data = <<>>
       /\ rt.type = "none"

\* The archive held the root, the entry and its first leaf but not its second
\* leaf, and the call failed.
C11_Witness ==
  /\ rt.done
  /\ rt.bodyRead
  /\ rt.served = "partial"
  /\ \E k \in 1..Len(rt.cid.links) :
       /\ <<rt.cid.links[k].name>> = rt.segs
       /\ rt.cid.links[k].cid \in rt.car
       /\ Len(rt.cid.links[k].cid.links) = 2
       /\ rt.cid.links[k].cid.links[1].cid \in rt.car
       /\ rt.cid.links[k].cid.links[2].cid \notin rt.car
  /\ rt.cid \in rt.car
  /\ rt.outcome = "error"
  /\ rt.err = "not found"

\* C12: when the gateway answers with a status outside 200-299, retrieve fails
\* with the gateway error, without reading the body, and returns no result.
C12_NonSuccessStatusFails ==
  (rt.done /\ rt.requests = 1 /\ rt.status # 0 /\ rt.status \notin 200..299)
    => /\ rt.outcome = "error"
       /\ rt.err = "Error fetching file"
       /\ ~rt.bodyRead
       /\ rt.data = <<>>

\* The gateway answered 404 and the call failed.
C12_Witness ==
  /\ rt.done
  /\ rt.requests = 1
  /\ rt.status = 404
  /\ rt.outcome = "error"
  /\ rt.err = "Error fetching file"

\* The error initialize() throws for the credentials the configuration lacks.
MissingCredential ==
  IF ~config.signer THEN Err("Private key is required", "none")
  ELSE Err("Delegation is required", "none")

\* C13: when the signer or the delegation is absent, every initialize() call
\* rejects with the missing-credential error, Storage.create is never called, the
\* instance stays Uninitialized (isConnected() is false), and an upload call
\* fails with 'Client not initialized' without reaching the backend or the network.
C13_MissingCredentialRejects ==
  ~HasCredentials
    => /\ createCalls = 0
       /\ addSpaceCalls = 0
       /\ Phase = "Uninitialized"
       /\ ~IsConnected
       /\ \A c \in CallIds :
            calls[c].st # "idle"
              => calls[c].st = "rejected" /\ calls[c].err = MissingCredential
       /\ up.pc # "idle"
            => /\ up.pc = "rejected"
               /\ up.err = Err("Client not initialized", "none")
               /\ up.dirCalls = 0
               /\ \A i \in FetchIds : fetch[i].headReqs = 0

\* Without a delegation, an initialize() call was rejected and a later upload
\* call failed.
C13_Witness ==
  /\ config.signer
  /\ ~config.delegation
  /\ calls[1].st = "rejected"
  /\ calls[1].err = Err("Delegation is required", "none")
  /\ up.pc = "rejected"
  /\ up.err = Err("Client not initialized", "none")

\* C14: isConnected() is true only in the Ready state, where initialize() has
\* completed successfully; it is false while initialization is pending and after
\* it has failed.
C14_ConnectedOnlyWhenReady == IsConnected => Phase = "Ready"

\* C15: a HEAD response without a content length is not an error and the
\* predeclared check is skipped: the call never fails for size before the GET
\* request, a size failure while streaming means the running total exceeded the
\* limit, and a call that completes returns a File whose bytes are the chunks
\* read, concatenated in arrival order, of length the sum of their lengths.
C15_UndeclaredLengthStreams ==
  \A i \in 1..NFiles :
    (fetch[i].headReqs = 1 /\ fetch[i].headLen = -1)
      => /\ (fetch[i].pc = "failed" /\ fetch[i].getReqs = 0)
              => fetch[i].err # SizeError
         /\ (fetch[i].pc = "failed" /\ fetch[i].err = SizeError)
              => /\ req.urlConfig.defined
                 /\ fetch[i].totalSize > req.urlConfig.maxUrlFileSizeBytes
         /\ fetch[i].pc = "done"
              => /\ fetch[i].file.exists
                 /\ fetch[i].file.bytes = Concat(fetch[i].chunks)
                 /\ fetch[i].file.bytes = remote[i].body
                 /\ Len(fetch[i].file.bytes) = fetch[i].totalSize
                 /\ fetch[i].file.name = req.urlFiles[i].name

\* Under a limit of two bytes, a two-byte body whose length the server did not
\* declare was read in two chunks and returned whole.
C15_Witness ==
  /\ fetch[1].pc = "done"
  /\ fetch[1].headLen = -1
  /\ req.urlConfig.defined
  /\ req.urlConfig.maxUrlFileSizeBytes = 2
  /\ Len(fetch[1].chunks) = 2
  /\ fetch[1].file.bytes = <<1, 2>>

\* The type of the File a completed call returned.
Returned(i) == fetch[i].file.type

LastReport(n) ==
  up.reports[CHOOSE k \in 1..Len(up.reports) :
               /\ up.reports[k].name = n
               /\ \A j \in (k + 1)..Len(up.reports) : up.reports[j].name # n]

ReportedNames == {up.reports[k].name : k \in 1..Len(up.reports)} \ {""}

\* C17: the files of a successful upload's result hold exactly one entry for
\* each distinct non-empty name the backend reported, mapped to the identifier of
\* the latest report of that name, no entry for an unnamed report, and the
\* result's root is the root the backend returned.
C17_FilesAreNamedReports ==
  up.pc = "resolved"
    => /\ up.result.files = {<<n, LastReport(n).cid>> : n \in ReportedNames}
       /\ \A e \in up.result.files : e[1] # ""
       /\ Cardinality(up.result.files) = Cardinality(ReportedNames)
       /\ up.result.root = DirCid(up.files)
       /\ \E e \in store : e.root = up.result.root

\* An upload whose backend reported the same name twice, with different
\* identifiers, and the directory without a name, has resolved.
C17_Witness ==
  /\ up.pc = "resolved"
  /\ Len(up.reports) = 3
  /\ up.reports[1].name = "a.txt"
  /\ up.reports[2].name = "a.txt"
  /\ up.reports[1].cid # up.reports[2].cid
  /\ up.reports[3].name = ""
  /\ up.result.files = {<<"a.txt", up.reports[2].cid>>}

\* What the caller asked for: the tool input's publishToFilecoin for a call the
\* handler made, the option's otherwise.
AskedToPublish ==
  IF req.tool = "direct" THEN req.options.publishToFilecoin ELSE req.tool

\* C18: uploadDirectory is invoked with the piece hasher left enabled only when
\* publishToFilecoin is true; when it is false or absent, on the inline and the
\* URL path, called directly or by the tool handler, the piece hasher is disabled.
C18_PublishOnlyWhenTrue ==
  up.dirCalls > 0
    => /\ AskedToPublish = "true" => up.backendOpts.pieceHasher = "default"
       /\ AskedToPublish \in {"false", "absent"}
            => up.backendOpts.pieceHasher = "undefined"

\* The handler, given no publishToFilecoin, has made a URL upload with the piece
\* hasher disabled.
C18_Witness ==
  /\ req.tool = "absent"
  /\ up.op = "urls"
  /\ up.dirCalls = 1
  /\ up.backendOpts.pieceHasher = "undefined"

\* The requests a fetch has made so far.
Requests(f) == <<f.headReqs, f.getReqs, f.reads>>

\* C19: a fetchFileFromUrl call issues at most one HEAD and one GET request, a
\* retrieve call at most one gateway request, a call that has failed issues no
\* further request, and the retry count goes to uploadDirectory unchanged (3 when
\* none is given), which is called at most once per upload call.
C19_NoRetry ==
  /\ [](/\ \A i \in FetchIds :
             /\ fetch[i].headReqs <= 1
             /\ fetch[i].getReqs <= 1
             /\ fetch[i].getReqs <= fetch[i].headReqs
        /\ rt.requests <= 1
        /\ (rt.done /\ rt.outcome = "error") => rt.requests <= 1
        /\ up.dirCalls <= 1
        /\ up.dirCalls = 1
             => up.backendOpts.retries =
                  (IF req.options.retries = -1 THEN 3 ELSE req.options.retries))
  /\ [][\A i \in FetchIds :
          (fetch[i].pc = "failed" /\ ~UploadFiles /\ ~UploadFilesFromUrls)
            => Requests(fetch'[i]) = Requests(fetch[i])]_vars
  /\ [][rt.done => rt'.requests = rt.requests]_vars

\* A call whose HEAD request failed has ended with that one request, and a
\* retrieve call whose gateway request failed has ended with one request; the
\* upload call before it passed on a retry count of 5.
C19_Witness ==
  /\ fetch[1].pc = "failed"
  /\ fetch[1].err = NetworkError
  /\ fetch[1].headReqs = 1
  /\ fetch[1].getReqs = 0
  /\ rt.done
  /\ rt.outcome = "error"
  /\ rt.err = "fetch failed"
  /\ rt.requests = 1
  /\ req.options.retries = 5

\* The messages of the errors the client throws in place of one it caught.
WrapperMessages ==
  {"Failed to initialize storage client", "Invalid URL", "URL fetch timeout or aborted"}

\* C20: every error the client throws in place of an error it caught (failed
\* initialisation, malformed URL, aborted or timed-out fetch) carries the caught
\* error as its cause.
C20_WrappedErrorsKeepCause ==
  /\ initError.msg \in WrapperMessages => initError.cause # "none"
  /\ \A i \in FetchIds :
       fetch[i].err.msg \in WrapperMessages => fetch[i].err.cause # "none"
  /\ up.err.msg \in WrapperMessages => up.err.cause # "none"

\* C21: for every gateway base URL, one with a path of its own included, the url
\* of a successful upload's result is the base followed by '/ipfs/' and the root.
C21_UrlIsBaseThenRoot ==
  up.pc = "resolved"
    => up.result.url = [origin |-> config.gatewayUrl.origin,
                        pathPrefix |-> config.gatewayUrl.pathPrefix,
                        cid |-> up.result.root, segs |-> <<>>, query |-> <<>>]

\* C22: the request retrieve sends addresses '/ipfs/<identifier><pathname>', with
\* the pathname of the parsed resource as it stands (nested segments and a
\* query-like suffix included), and carries the query parameter format=car.
C22_RequestAsksForArchive ==
  (rt.done /\ rt.requests = 1)
    => /\ rt.url.cid = rt.cid
       /\ rt.url.segs = rt.segs
       /\ rt.url.query = <<"format=car">>

\* The HEAD response of a call passed the predeclared size check: it declared no
\* length, or one within the limit of the policy, or there is no policy.
PassedDeclaredCheck(i) ==
  \/ fetch[i].headLen = -1
  \/ ~req.urlConfig.defined
  \/ fetch[i].headLen <= req.urlConfig.maxUrlFileSizeBytes

\* C23: a URL that is malformed, of a scheme not allowed or of a host not
\* admitted makes the call fail with the corresponding error, with no timer armed
\* and no HEAD or GET request; the HEAD request is issued only when the three
\* checks pass, and the GET request only after a successful HEAD response that
\* passed the predeclared size check.
C23_ValidationBeforeIO ==
  \A i \in 1..NFiles :
    (up.op = "urls" /\ fetch[i].pc # "idle")
      => /\ ValidationError(req.urlFiles[i], req.urlConfig) # NoError
              => /\ fetch[i].pc = "failed"
                 /\ fetch[i].err = ValidationError(req.urlFiles[i], req.urlConfig)
                 /\ fetch[i].timer = "none"
                 /\ fetch[i].headReqs = 0
                 /\ fetch[i].getReqs = 0
         /\ fetch[i].headReqs > 0
              => ValidationError(req.urlFiles[i], req.urlConfig) = NoError
         /\ fetch[i].getReqs > 0
              => /\ fetch[i].headReqs = 1
                 /\ PassedDeclaredCheck(i)

\* C24: an upload over several URLs calls uploadDirectory at most once, only when
\* every fetch of the call has completed, with one File per requested entry in
\* request order; when a fetch has failed, uploadDirectory is not called and the
\* call rejects.
C24_AllOrNothing ==
  up.op = "urls"
    => /\ up.dirCalls <= 1
       /\ up.dirCalls = 1
            => /\ \A i \in 1..NFiles : fetch[i].pc = "done"
               /\ Len(up.files) = NFiles
               /\ \A i \in 1..NFiles :
                    /\ up.files[i].exists
                    /\ up.files[i].name = req.urlFiles[i].name
                    /\ up.files[i].bytes = remote[i].body
       /\ (\E i \in 1..NFiles : fetch[i].pc = "failed")
            => /\ up.dirCalls = 0
               /\ up.pc = "rejected"
               /\ up.result = NoResult

\* Two URLs were fetched and uploadDirectory was called with the two files.
C24_Witness ==
  /\ up.op = "urls"
  /\ up.dirCalls = 1
  /\ NFiles = 2
  /\ up.files[1].name = "a.txt"
  /\ up.files[1].bytes = <<1>>
  /\ up.files[2].name = "b.bin"
  /\ up.files[2].bytes = <<2>>

\* C25: once an upload call over several URLs has settled, none of its fetches is
\* still in flight and none of their timers is still armed; a failed fetch does
\* not leave its siblings running after the call has rejected.
C25_NothingRunsAfterSettle ==
  (up.op = "urls" /\ up.pc \in {"resolved", "rejected"})
    => \A i \in 1..NFiles :
         /\ fetch[i].pc \notin Pending
         /\ fetch[i].timer # "armed"
====
